---- MODULE Spec2Model ----
(***************************************************************************)
(* Model of scripts/extract_matcaps.py: the regular-expression scan of a   *)
(* bindata .cpp document (extract_arrays) and the batch loop of main()     *)
(* that selects one array per (suffix, output file) pair and writes it.    *)
(*                                                                         *)
(* A document is a sequence of lexical atoms.  A header atom stands for    *)
(* one piece of text matched by the prefix of the declaration pattern,     *)
(*   const\s+std::array<unsigned\s+char,\s*\d+>\s+(\w+)\s*=\s*\{           *)
(* and carries the identifier (group 1) and the declared size \d+.  Every  *)
(* other atom is a single character.  Identifiers and suffixes are         *)
(* sequences of one-character strings, so that str.endswith is computed.   *)
(***************************************************************************)
EXTENDS Integers, Sequences, FiniteSets, TLC

VARIABLES files, out, pc, fi, ci, content, arrays, total_files, total_bytes, stdout

vars == <<files, out, pc, fi, ci, content, arrays, total_files, total_bytes, stdout>>

(***************************************************************************)
(* Bounds of the checked inputs.                                           *)
(***************************************************************************)
\* longest declaration body of the single-declaration documents
MaxBody == 7
\* largest number of segments of a composed document
MaxSegs == 3
\* largest number of input files present in the bindata directory
MaxPresent == 2
\* number of times the script is run in succession
MaxRuns == 2

(***************************************************************************)
(* Atoms and text.                                                         *)
(***************************************************************************)
Hdr(name, size) == [hdr |-> TRUE, name |-> name, size |-> size, ch |-> ""]

Ch(c) == [hdr |-> FALSE, name |-> <<>>, size |-> 0, ch |-> c]

Text(s) == [k \in 1..Len(s) |-> Ch(s[k])]

\* [0-9a-fA-F]
HexDigits ==
  {"0", "1", "2", "3", "4", "5", "6", "7", "8", "9",
   "a", "b", "c", "d", "e", "f", "A", "B", "C", "D", "E", "F"}

\* value of one digit in int(h, 16)
HexDigitValue(c) ==
  CASE c = "0" -> 0 [] c = "1" -> 1 [] c = "2" -> 2 [] c = "3" -> 3
    [] c = "4" -> 4 [] c = "5" -> 5 [] c = "6" -> 6 [] c = "7" -> 7
    [] c = "8" -> 8 [] c = "9" -> 9
    [] c \in {"a", "A"} -> 10 [] c \in {"b", "B"} -> 11
    [] c \in {"c", "C"} -> 12 [] c \in {"d", "D"} -> 13
    [] c \in {"e", "E"} -> 14 [] c \in {"f", "F"} -> 15

\* int(h, 16) for a two-digit string h
int16(h) == 16 * HexDigitValue(h[1]) + HexDigitValue(h[2])

\* the token pattern 0x([0-9a-fA-F]{2}) matches at position i of hex_str
TokenAt(hex_str, i) ==
  /\ i >= 1
  /\ i + 3 <= Len(hex_str)
  /\ hex_str[i].ch = "0"
  /\ hex_str[i + 1].ch = "x"
  /\ hex_str[i + 2].ch \in HexDigits
  /\ hex_str[i + 3].ch \in HexDigits

\* a scan that restarts one character after the start of a match
RECURSIVE findallOverlapping(_, _)
findallOverlapping(hex_str, i) ==
  IF i > Len(hex_str) THEN <<>>
  ELSE IF TokenAt(hex_str, i)
       THEN <<(<<hex_str[i + 2].ch, hex_str[i + 3].ch>>)>>
              \o findallOverlapping(hex_str, i + 1)
       ELSE findallOverlapping(hex_str, i + 1)

\* re.findall(r'0x([0-9a-fA-F]{2})', hex_str) scanning from position i:
\* leftmost matches, the scan resuming after the end of each match
RECURSIVE findall(_, _)
findall(hex_str, i) ==
  IF i > Len(hex_str) THEN <<>>
  ELSE IF TokenAt(hex_str, i)
       THEN <<(<<hex_str[i + 2].ch, hex_str[i + 3].ch>>)>> \o findall(hex_str, i + 4)
       ELSE findall(hex_str, i + 1)

\* bytes(int(h, 16) for h in hex_values)
bytes(hex_values) == [k \in 1..Len(hex_values) |-> int16(hex_values[k])]

\* position of the first "}" at or after p, 0 when there is none
RECURSIVE FirstClose(_, _)
FirstClose(doc, p) ==
  IF p > Len(doc) THEN 0
  ELSE IF doc[p].ch = "}" THEN p
  ELSE FirstClose(doc, p + 1)

\* a scan that stops after the first match (re.search instead of re.finditer)
RECURSIVE finditerFirstOnly(_, _)
finditerFirstOnly(doc, p) ==
  IF p > Len(doc) THEN <<>>
  ELSE IF doc[p].hdr
       THEN LET q == FirstClose(doc, p + 1)
            IN IF q > p + 1
               THEN <<[name |-> doc[p].name, hex_str |-> SubSeq(doc, p + 1, q - 1)]>>
               ELSE finditerFirstOnly(doc, p + 1)
       ELSE finditerFirstOnly(doc, p + 1)

\* re.finditer(pattern, content, re.DOTALL) scanning from position p: the
\* matches (group 1, group 2) in document order.  After the header the body
\* [^}]+ takes every atom up to the first "}", must not be empty and must be
\* followed by "}"; the scan resumes after the "}" of a match and one atom
\* further when the pattern fails at p.
RECURSIVE finditer(_, _)
finditer(doc, p) ==
  IF p > Len(doc) THEN <<>>
  ELSE IF doc[p].hdr
       THEN LET q == FirstClose(doc, p + 1)
            IN IF q > p + 1
               THEN <<[name |-> doc[p].name, hex_str |-> SubSeq(doc, p + 1, q - 1)]>>
                      \o finditer(doc, q + 1)
               ELSE finditer(doc, p + 1)
       ELSE finditer(doc, p + 1)

\* the keys of a dict, in insertion order
keys(results) == [k \in 1..Len(results) |-> results[k].name]

\* a store that keeps the value of an existing key
setitemKeepFirst(results, name, data) ==
  IF \E k \in 1..Len(results) : results[k].name = name
  THEN results
  ELSE Append(results, [name |-> name, data |-> data])

\* results[name] = data on an insertion-ordered dict: an existing key keeps
\* its position and takes the new value, a new key is appended
setitem(results, name, data) ==
  IF \E k \in 1..Len(results) : results[k].name = name
  THEN [k \in 1..Len(results) |->
          IF results[k].name = name THEN [name |-> name, data |-> data]
          ELSE results[k]]
  ELSE Append(results, [name |-> name, data |-> data])

\* the body of the for loop of extract_arrays over matches k..Len(matches)
RECURSIVE StoreMatches(_, _, _)
StoreMatches(results, matches, k) ==
  IF k > Len(matches) THEN results
  ELSE LET hex_values == findall(matches[k].hex_str, 1)
           data == bytes(hex_values)
       IN StoreMatches(setitem(results, matches[k].name, data), matches, k + 1)

extract_arrays(doc) == StoreMatches(<<>>, finditer(doc, 1), 1)

\* arrays[array_name]
getitem(results, name) ==
  LET k == CHOOSE j \in 1..Len(results) : results[j].name = name
  IN results[k].data

\* name.endswith(suffix)
endswith(name, suffix) ==
  /\ Len(suffix) <= Len(name)
  /\ SubSeq(name, Len(name) - Len(suffix) + 1, Len(name)) = suffix

(***************************************************************************)
(* The static table and the batch loop of main().                          *)
(***************************************************************************)
Chan(suffix, out_name) == [suffix |-> suffix, out_name |-> out_name]

\* MATERIALS.items(), in insertion order
MATERIALS ==
  << [cpp_file |-> "bindata_clay.cpp",
      channels |-> << Chan(<<"_", "r">>, "clay_r.hdr"), Chan(<<"_", "g">>, "clay_g.hdr"),
                      Chan(<<"_", "b">>, "clay_b.hdr"), Chan(<<"_", "k">>, "clay_k.hdr") >>],
     [cpp_file |-> "bindata_wax.cpp",
      channels |-> << Chan(<<"_", "r">>, "wax_r.hdr"), Chan(<<"_", "g">>, "wax_g.hdr"),
                      Chan(<<"_", "b">>, "wax_b.hdr"), Chan(<<"_", "k">>, "wax_k.hdr") >>],
     [cpp_file |-> "bindata_candy.cpp",
      channels |-> << Chan(<<"_", "r">>, "candy_r.hdr"), Chan(<<"_", "g">>, "candy_g.hdr"),
                      Chan(<<"_", "b">>, "candy_b.hdr"), Chan(<<"_", "k">>, "candy_k.hdr") >>],
     [cpp_file |-> "bindata_flat.cpp",
      channels |-> << Chan(<<"_", "r">>, "flat_r.hdr"), Chan(<<"_", "g">>, "flat_g.hdr"),
                      Chan(<<"_", "b">>, "flat_b.hdr"), Chan(<<"_", "k">>, "flat_k.hdr") >>],
     [cpp_file |-> "bindata_mud.cpp", channels |-> << Chan(<<>>, "mud.hdr") >>],
     [cpp_file |-> "bindata_ceramic.cpp", channels |-> << Chan(<<>>, "ceramic.hdr") >>],
     [cpp_file |-> "bindata_jade.cpp", channels |-> << Chan(<<>>, "jade.hdr") >>],
     [cpp_file |-> "bindata_normal.cpp", channels |-> << Chan(<<>>, "normal.hdr") >> ] >>

CppFiles == {MATERIALS[i].cpp_file : i \in 1..Len(MATERIALS)}

OutNames ==
  UNION {{MATERIALS[i].channels[j].out_name : j \in 1..Len(MATERIALS[i].channels)} :
           i \in 1..Len(MATERIALS)}

\* an input path of BINDATA_DIR: absent, or a text file with its content
NoInput == [exists |-> FALSE, content |-> <<>>]

InputFile(doc) == [exists |-> TRUE, content |-> doc]

\* an output path of OUTPUT_DIR: absent, or a file with its bytes
NoFile == [exists |-> FALSE, data |-> <<>>]

\* open(out_path, "ab"): the bytes are added after the existing content
WriteAppending(old, data) == [exists |-> TRUE, data |-> old.data \o data]

\* open(out_path, "r+b"): the bytes overwrite the head of the existing content
WriteInPlace(old, data) ==
  [exists |-> TRUE,
   data |-> data \o (IF Len(old.data) > Len(data)
                     THEN SubSeq(old.data, Len(data) + 1, Len(old.data))
                     ELSE <<>>)]

\* with open(out_path, "wb") as f: f.write(data)
WriteFile(old, data) == [exists |-> TRUE, data |-> data]

\* print(...) of the running process
Emit(msg) == [stdout EXCEPT ![Len(stdout)] = Append(@, msg)]

\* the (suffix, out_name) pair the inner loop is at
Channel == MATERIALS[fi].channels[ci]

\* [name for name in arrays if name.endswith(suffix)], then the fallback
\* list(arrays.keys()) when that list is empty
Matching(results, suffix) ==
  LET m == SelectSeq(keys(results), LAMBDA name : endswith(name, suffix))
  IN IF m = <<>> THEN keys(results) ELSE m

\* [n for n in matching if n.endswith(suffix)]
Refiltered(matching, suffix) == SelectSeq(matching, LAMBDA n : endswith(n, suffix))

\* a selection that takes the last candidate
SelectLast(matching, suffix) ==
  IF suffix # <<>>
  THEN Refiltered(matching, suffix)[Len(Refiltered(matching, suffix))]
  ELSE matching[Len(matching)]

\* array_name of the if/else on suffix (defined when the indexed list is not empty)
SelectName(matching, suffix) ==
  IF suffix # <<>> THEN Refiltered(matching, suffix)[1] ELSE matching[1]

\* total_bytes = len(data): an assignment in place of +=
AddBytesAssign(total, data) == Len(data)

\* total_bytes += len(data)
AddBytes(total, data) == total + Len(data)

\* the control point after one pass of the inner loop: the next channel of
\* the file, or the next file of the table
NextChannel ==
  IF ci < Len(MATERIALS[fi].channels)
  THEN /\ ci' = ci + 1
       /\ pc' = "channel"
       /\ fi' = fi
  ELSE /\ ci' = 1
       /\ pc' = "file"
       /\ fi' = fi + 1

\* python3 scripts/extract_matcaps.py: a new process; makedirs(exist_ok=True)
\* and both totals set to 0
Start ==
  /\ pc \in {"idle", "done", "crashed"}
  /\ Len(stdout) < MaxRuns
  /\ stdout' = Append(stdout, <<>>)
  /\ total_files' = 0
  /\ total_bytes' = 0
  /\ fi' = 1
  /\ ci' = 1
  /\ arrays' = <<>>
  /\ content' = <<>>
  /\ pc' = "file"
  /\ UNCHANGED <<files, out>>

\* the input file does not exist: warning and continue
SkipMissingFile ==
  /\ pc = "file"
  /\ fi <= Len(MATERIALS)
  /\ ~files[MATERIALS[fi].cpp_file].exists
  /\ stdout' = Emit([t |-> "missing", cpp_file |-> MATERIALS[fi].cpp_file])
  /\ fi' = fi + 1
  /\ UNCHANGED <<files, out, pc, ci, content, arrays, total_files, total_bytes>>

\* the input file exists: it is read and its arrays are extracted
ProcessFile ==
  /\ pc = "file"
  /\ fi <= Len(MATERIALS)
  /\ files[MATERIALS[fi].cpp_file].exists
  /\ stdout' = Emit([t |-> "processing", cpp_file |-> MATERIALS[fi].cpp_file])
  /\ content' = files[MATERIALS[fi].cpp_file].content
  /\ arrays' = extract_arrays(content')
  /\ ci' = 1
  /\ pc' = "channel"
  /\ UNCHANGED <<files, out, fi, total_files, total_bytes>>

\* no candidate at all: warning and continue
SkipChannel ==
  /\ pc = "channel"
  /\ Matching(arrays, Channel.suffix) = <<>>
  /\ stdout' = Emit([t |-> "noarray", suffix |-> Channel.suffix,
                     cpp_file |-> MATERIALS[fi].cpp_file])
  /\ NextChannel
  /\ UNCHANGED <<files, out, content, arrays, total_files, total_bytes>>

\* [n for n in matching if n.endswith(suffix)][0] on an empty list raises
\* IndexError, which nothing catches: the process ends with a traceback
IndexErrorExit ==
  /\ pc = "channel"
  /\ Matching(arrays, Channel.suffix) # <<>>
  /\ Channel.suffix # <<>>
  /\ Refiltered(Matching(arrays, Channel.suffix), Channel.suffix) = <<>>
  /\ pc' = "crashed"
  /\ UNCHANGED <<files, out, fi, ci, content, arrays, total_files, total_bytes, stdout>>

\* the selected array is written to its output file and counted
WriteChannel ==
  /\ pc = "channel"
  /\ Matching(arrays, Channel.suffix) # <<>>
  /\ Channel.suffix # <<>> =>
       Refiltered(Matching(arrays, Channel.suffix), Channel.suffix) # <<>>
  /\ LET array_name == SelectName(Matching(arrays, Channel.suffix), Channel.suffix)
         data == getitem(arrays, array_name)
     IN /\ out' = [out EXCEPT ![Channel.out_name] = WriteFile(@, data)]
        /\ total_files' = total_files + 1
        /\ total_bytes' = AddBytes(total_bytes, data)
        /\ stdout' = Emit([t |-> "wrote", array_name |-> array_name,
                           out_name |-> Channel.out_name, len |-> Len(data)])
  /\ NextChannel
  /\ UNCHANGED <<files, content, arrays>>

\* the loop over the table is over: the summary is printed and main returns
Summary ==
  /\ pc = "file"
  /\ fi > Len(MATERIALS)
  /\ stdout' = [stdout EXCEPT ![Len(stdout)] =
                  @ \o << [t |-> "done", total_files |-> total_files,
                           total_bytes |-> total_bytes],
                          [t |-> "outdir"] >>]
  /\ pc' = "done"
  /\ UNCHANGED <<files, out, fi, ci, content, arrays, total_files, total_bytes>>

Next ==
  \/ Start
  \/ SkipMissingFile
  \/ ProcessFile
  \/ SkipChannel
  \/ IndexErrorExit
  \/ WriteChannel
  \/ Summary

(***************************************************************************)
(* Input documents.                                                        *)
(***************************************************************************)
\* const std::array<unsigned char, size> name = {body};
Decl(name, size, body) == <<Hdr(name, size)>> \o body \o Text(<<"}", ";">>)

m_r == <<"m", "_", "r">>
m_g == <<"m", "_", "g">>
m_b == <<"m", "_", "b">>
m_k == <<"m", "_", "k">>
w_k == <<"w", "_", "k">>
w_g == <<"w", "_", "g">>
mud == <<"m", "u", "d">>

B_0F == Text(<<" ", "0", "x", "0", "F", " ">>)
B_F0 == Text(<<" ", "0", "x", "F", "0", " ">>)
B_FF == Text(<<"0", "x", "f", "F">>)
B_00 == Text(<<" ", "0", "x", "0", "0", ",", " ">>)
B_F0_00 == Text(<<"0", "x", "F", "0", ",", "0", "x", "0", "0">>)
B_0F_0F == Text(<<"0", "x", "0", "F", ",", " ", "0", "x", "0", "F">>)
B_FF_FF == Text(<<"0", "x", "F", "F", ",", "0", "x", "G", "1", ",", "0", "x", "F", "F">>)
B_00_0F_F0 ==
  Text(<<" ", "0", "x", "0", "0", ",", " ", "0", "x", "0", "F", ",", "\n",
         "0", "x", "F", "0", " ">>)

\* a document without any complete declaration
DocNone == <<Hdr(mud, 1)>> \o B_0F

\* a four-channel document; two of its names end with _k
DocBlend ==
  Decl(m_r, 1, B_0F) \o Decl(m_g, 2, B_F0_00) \o Decl(m_b, 1, B_FF)
    \o Decl(m_k, 1, B_00) \o Decl(w_k, 2, B_FF_FF)

\* names for _r and _g only, w_g declared twice
DocRG == Decl(w_g, 2, B_0F_0F) \o Decl(m_r, 1, B_F0) \o Decl(w_g, 1, B_FF)

\* one array whose name carries no channel suffix
DocPlain == Decl(mud, 3, B_00_0F_F0)

RunDocs == {DocNone, DocBlend, DocRG, DocPlain}

\* content an output file may hold before the first run
OldFile == [exists |-> TRUE, data |-> <<170, 170, 170, 170>>]

PriorFiles == {NoFile, OldFile}

\* the state before the script is started: at most MaxPresent of the input
\* files exist, the output directory is empty or holds earlier output
Init ==
  /\ \E present \in {S \in SUBSET CppFiles : Cardinality(S) <= MaxPresent} :
       \E docs \in [present -> RunDocs] :
         files = [f \in CppFiles |-> IF f \in present THEN InputFile(docs[f]) ELSE NoInput]
  /\ \E prior \in PriorFiles : out = [o \in OutNames |-> prior]
  /\ pc = "idle"
  /\ fi = 1
  /\ ci = 1
  /\ content = <<>>
  /\ arrays = <<>>
  /\ total_files = 0
  /\ total_bytes = 0
  /\ stdout = <<>>

Spec == Init /\ [][Next]_vars

(***************************************************************************)
(* extract_arrays as a function of the document.                           *)
(***************************************************************************)
BodyChars == {"0", "x", "F", "G"}

DeclaredSizes == {1, 4}

\* one declaration with an arbitrary body of at most MaxBody characters
SingleDeclDocs ==
  {<<Hdr(mud, n)>> \o Text(b) \o Text(<<"}">>) :
     n \in DeclaredSizes,
     b \in UNION {[1..len -> BodyChars] : len \in 1..MaxBody}}

\* pieces of text a composed document is made of
Segments ==
  { Decl(m_r, 1, B_0F), Decl(m_r, 1, B_F0_00), Decl(m_g, 2, B_0F), Decl(m_g, 2, B_FF),
    <<Hdr(m_r, 1)>>, <<Hdr(m_g, 1)>>, Text(<<"}">>), Text(<<";">>),
    <<Hdr(m_g, 0)>> \o Text(<<"}">>) }

RECURSIVE Concat(_)
Concat(ss) == IF ss = <<>> THEN <<>> ELSE Head(ss) \o Concat(Tail(ss))

\* at most MaxSegs segments one after the other
ComposedDocs ==
  {Concat(ss) : ss \in UNION {[1..n -> Segments] : n \in 0..MaxSegs}}

InitExtract ==
  /\ content \in SingleDeclDocs \cup ComposedDocs
  /\ pc = "call"
  /\ arrays = <<>>
  /\ files = [f \in CppFiles |-> NoInput]
  /\ out = [o \in OutNames |-> NoFile]
  /\ fi = 1
  /\ ci = 1
  /\ total_files = 0
  /\ total_bytes = 0
  /\ stdout = <<>>

\* arrays = extract_arrays(filepath) on a file that holds content
ExtractArrays ==
  /\ pc = "call"
  /\ arrays' = extract_arrays(content)
  /\ pc' = "returned"
  /\ UNCHANGED <<files, out, fi, ci, content, total_files, total_bytes, stdout>>

NextExtract == ExtractArrays

SpecExtract == InitExtract /\ [][NextExtract]_vars

(***************************************************************************)
(* Properties of extract_arrays, stated on positions of the document and   *)
(* checked under SpecExtract.                                              *)
(***************************************************************************)
\* the declaration pattern matches the text from the header at p to the "}" at q
MatchAt(doc, p, q) ==
  /\ doc[p].hdr
  /\ q > p + 1
  /\ doc[q].ch = "}"
  /\ \A k \in (p + 1)..(q - 1) : doc[k].ch # "}"

\* the header at p lies in the body opened by an earlier header
Swallowed(doc, p) ==
  \E p0 \in 1..(p - 1) : doc[p0].hdr /\ \A k \in (p0 + 1)..(p - 1) : doc[k].ch # "}"

\* the text from p to q is one of the matches of the scan
DeclMatch(doc, p, q) == MatchAt(doc, p, q) /\ ~Swallowed(doc, p)

\* no later match carries the name of the header at p
LastOfName(doc, p) ==
  ~\E p2 \in (p + 1)..Len(doc), q2 \in (p + 1)..Len(doc) :
      DeclMatch(doc, p2, q2) /\ doc[p2].name = doc[p].name

HasKey(results, name) == \E k \in 1..Len(results) : results[k].name = name

\* the k-th smallest element of a set of positions
Nth(S, k) == CHOOSE i \in S : Cardinality({j \in S : j < i}) = k - 1

\* the byte values of the tokens that start at the positions S, in text order
ValuesAt(body, S) ==
  [k \in 1..Cardinality(S) |->
     16 * HexDigitValue(body[Nth(S, k) + 2].ch) + HexDigitValue(body[Nth(S, k) + 3].ch)]

\* every position at which 0x followed by two hexadecimal digits occurs
EveryOccurrence(body) == {i \in 1..Len(body) : TokenAt(body, i)}

\* number of occurrences of the token pattern at i - 3, i - 6, ... without a gap
ChainBefore(body, i) ==
  CHOOSE l \in 0..Len(body) :
    /\ \A m \in 1..l : TokenAt(body, i - 3 * m)
    /\ ~TokenAt(body, i - 3 * (l + 1))

\* positions of 0x followed by two hexadecimal digits that do not start on the
\* last digit of a token (two occurrences can only overlap at distance 3)
ScanTokens(body) ==
  {i \in 1..Len(body) : TokenAt(body, i) /\ ChainBefore(body, i) % 2 = 0}

\* C1 as stated: the buffer under a matched name is the values, in text
\* order, of the hex tokens of the body, a token being any occurrence of 0x
\* followed by two hexadecimal digits; no other character contributes a byte.
C1_EveryOccurrence ==
  pc = "returned" =>
    \A p \in 1..Len(content), q \in 1..Len(content) :
      (DeclMatch(content, p, q) /\ LastOfName(content, p)) =>
        /\ HasKey(arrays, content[p].name)
        /\ getitem(arrays, content[p].name)
             = ValuesAt(SubSeq(content, p + 1, q - 1),
                        EveryOccurrence(SubSeq(content, p + 1, q - 1)))

\* C1 amended: the buffer under a matched name is the values, in text order,
\* of the occurrences of 0x followed by two hexadecimal digits that a
\* left-to-right scan finds without overlap (an occurrence that starts on the
\* last digit of a token is no token); the declared size and every other
\* character contribute nothing.
C1_ScanTokens ==
  pc = "returned" =>
    \A p \in 1..Len(content), q \in 1..Len(content) :
      (DeclMatch(content, p, q) /\ LastOfName(content, p)) =>
        /\ HasKey(arrays, content[p].name)
        /\ getitem(arrays, content[p].name)
             = ValuesAt(SubSeq(content, p + 1, q - 1),
                        ScanTokens(SubSeq(content, p + 1, q - 1)))

\* a body with a token and an occurrence of the pattern that starts on
\* the token's last digit has been decoded to the one byte of the token
C1_Witness ==
  /\ pc = "returned"
  /\ content = <<Hdr(mud, 4)>> \o Text(<<"0", "x", "F", "0", "x", "F", "F", "}">>)
  /\ arrays = <<[name |-> mud, data |-> <<240>>]>>

\* the names of the matches of the scan
MatchedNames(doc) ==
  {doc[p].name : p \in {p1 \in 1..Len(doc) :
                          \E q \in 1..Len(doc) : DeclMatch(doc, p1, q)}}

\* C4: a name matched more than once maps to the buffer of its last match;
\* the mapping has one entry per distinct matched name and no other entry.
C4_LastWriteWins ==
  pc = "returned" =>
    /\ \A j \in 1..Len(arrays), k \in 1..Len(arrays) :
         arrays[j].name = arrays[k].name => j = k
    /\ {arrays[k].name : k \in 1..Len(arrays)} = MatchedNames(content)
    /\ Len(arrays) = Cardinality(MatchedNames(content))
    /\ \A p \in 1..Len(content), q \in 1..Len(content) :
         (DeclMatch(content, p, q) /\ LastOfName(content, p)) =>
           getitem(arrays, content[p].name)
             = bytes(findall(SubSeq(content, p + 1, q - 1), 1))

\* m_r is declared twice with different bodies, m_g in between
C4_Witness ==
  /\ pc = "returned"
  /\ content = Decl(m_r, 1, B_0F) \o Decl(m_g, 2, B_FF) \o Decl(m_r, 1, B_F0_00)
  /\ arrays = <<[name |-> m_r, data |-> <<240, 0>>], [name |-> m_g, data |-> <<255>>]>>

\* characters of a hex literal list
ListChars == HexDigits \cup {"x", ",", " ", "\n"}

\* a well-formed declaration from the header at p to the "}" at q: the braces
\* enclose a non-empty list text
WellFormed(doc, p, q) ==
  /\ MatchAt(doc, p, q)
  /\ \A k \in (p + 1)..(q - 1) : doc[k].ch \in ListChars

NoDeclaration(doc) == ~\E p \in 1..Len(doc), q \in 1..Len(doc) : MatchAt(doc, p, q)

\* C7 as stated: a document without a match of the declaration pattern gives
\* the empty mapping, and the identifier of every well-formed declaration of
\* the document is in the mapping.
C7_EveryWellFormed ==
  pc = "returned" =>
    /\ NoDeclaration(content) => arrays = <<>>
    /\ \A p \in 1..Len(content), q \in 1..Len(content) :
         WellFormed(content, p, q) => HasKey(arrays, content[p].name)

\* C7 amended: a document without a match of the declaration pattern gives
\* the empty mapping, and the identifier of a well-formed declaration is in
\* the mapping when no earlier declaration header is left without a "}"
\* before it.
C7_WellFormedNotSwallowed ==
  pc = "returned" =>
    /\ NoDeclaration(content) => arrays = <<>>
    /\ \A p \in 1..Len(content), q \in 1..Len(content) :
         (WellFormed(content, p, q) /\ ~Swallowed(content, p)) =>
           HasKey(arrays, content[p].name)

\* a header with empty braces, then two well-formed declarations
C7_Witness ==
  /\ pc = "returned"
  /\ content = <<Hdr(m_g, 0)>> \o Text(<<"}">>) \o Decl(m_r, 1, B_0F) \o Decl(m_g, 2, B_FF)
  /\ keys(arrays) = <<m_r, m_g>>

(***************************************************************************)
(* Properties of the batch loop, checked under Spec.                       *)
(***************************************************************************)
\* what the running (or last) process has printed
Cur == stdout[Len(stdout)]

Started == Len(stdout) > 0

Printed(msg) == Started /\ \E k \in 1..Len(Cur) : Cur[k] = msg

\* the messages of the current run that report a written file
Wrote == {k \in 1..Len(Cur) : Cur[k].t = "wrote"}

OutNamesOf(i) == {MATERIALS[i].channels[j].out_name : j \in 1..Len(MATERIALS[i].channels)}

\* the table entry an output name belongs to
FileOf(out_name) == CHOOSE i \in 1..Len(MATERIALS) : out_name \in OutNamesOf(i)

\* no name of the mapping ends with the suffix
NoneEndsWith(results, suffix) ==
  \A k \in 1..Len(results) : ~endswith(results[k].name, suffix)

\* index of the first name of the mapping that ends with the suffix
FirstEndingWith(results, suffix) ==
  CHOOSE k \in 1..Len(results) :
    /\ endswith(results[k].name, suffix)
    /\ \A j \in 1..(k - 1) : ~endswith(results[j].name, suffix)

\* C2: with a non-empty suffix that no name of a non-empty mapping ends with,
\* the step of the resolver writes the buffer of the first name of the mapping
\* to the asset's output file and the run goes on with the next asset.
C2_FallbackWritesFirst ==
  [][(/\ pc = "channel"
      /\ Channel.suffix # <<>>
      /\ arrays # <<>>
      /\ NoneEndsWith(arrays, Channel.suffix))
       => /\ out'[Channel.out_name] = [exists |-> TRUE, data |-> arrays[1].data]
          /\ pc' \in {"channel", "file"}]_vars

\* position of the first match of the scan that carries the name
FirstMatchOf(doc, name) ==
  CHOOSE p \in 1..Len(doc) :
    /\ doc[p].name = name
    /\ \E q \in 1..Len(doc) : DeclMatch(doc, p, q)
    /\ \A p2 \in 1..(p - 1) :
         ~(doc[p2].name = name /\ \E q \in 1..Len(doc) : DeclMatch(doc, p2, q))

\* the names of the mapping stand in the order of their first appearance
MappingOrderIsFirstAppearance ==
  pc = "channel" =>
    \A j \in 1..Len(arrays), k \in 1..Len(arrays) :
      j < k => FirstMatchOf(content, arrays[j].name) < FirstMatchOf(content, arrays[k].name)

\* C3: when a name of the mapping ends with the suffix (every name does for
\* the empty suffix), the step writes the buffer of the first such name in
\* mapping order, which is the order of first appearance in the document,
\* and reports that name; the choice depends on the mapping and the suffix only.
C3_FirstInMappingOrder ==
  /\ []MappingOrderIsFirstAppearance
  /\ [][(/\ pc = "channel"
         /\ ~NoneEndsWith(arrays, Channel.suffix))
          => LET first == FirstEndingWith(arrays, Channel.suffix)
             IN /\ total_files' = total_files + 1
                /\ out'[Channel.out_name] = [exists |-> TRUE, data |-> arrays[first].data]
                /\ stdout'[Len(stdout')][Len(stdout'[Len(stdout')])]
                     = [t |-> "wrote", array_name |-> arrays[first].name,
                        out_name |-> Channel.out_name, len |-> Len(arrays[first].data)]]_vars

\* of m_k and w_k, both ending with _k, the earlier m_k went to clay_k.hdr
C3_Witness ==
  /\ files["bindata_clay.cpp"] = InputFile(DocBlend)
  /\ Printed([t |-> "wrote", array_name |-> m_k, out_name |-> "clay_k.hdr", len |-> 1])
  /\ out["clay_k.hdr"] = [exists |-> TRUE, data |-> <<0>>]
  /\ keys(arrays) = <<m_r, m_g, m_b, m_k, w_k>>

\* the current run has reached file j of the table (warning or progress line)
Reported(j) ==
  \/ Printed([t |-> "missing", cpp_file |-> MATERIALS[j].cpp_file])
  \/ Printed([t |-> "processing", cpp_file |-> MATERIALS[j].cpp_file])

\* the current run has printed its summary
Summarised == Started /\ \E k \in 1..Len(Cur) : Cur[k].t = "done"

\* C5: once the warning for a missing input file is printed, none of that
\* file's assets is written, the totals count written files only, the run
\* does not end before the summary, and at its end every later file of the
\* table has been processed and the summary printed.
C5_MissingFileSkipped ==
  \A i \in 1..Len(MATERIALS) :
    Printed([t |-> "missing", cpp_file |-> MATERIALS[i].cpp_file]) =>
      /\ \A k \in Wrote : Cur[k].out_name \notin OutNamesOf(i)
      /\ total_files = Cardinality(Wrote)
      /\ pc # "crashed"
      /\ pc = "done" => /\ \A j \in (i + 1)..Len(MATERIALS) : Reported(j)
                        /\ Summarised

\* C6: once a document with the empty Extraction Result is being processed,
\* each of its assets gets a diagnostic and no output file, the totals count
\* written files only, the run does not end before the summary, and at its
\* end every later file of the table has been processed.
C6_EmptyMappingSkipped ==
  \A i \in 1..Len(MATERIALS) :
    (/\ Printed([t |-> "processing", cpp_file |-> MATERIALS[i].cpp_file])
     /\ extract_arrays(files[MATERIALS[i].cpp_file].content) = <<>>) =>
      /\ \A k \in Wrote : Cur[k].out_name \notin OutNamesOf(i)
      /\ total_files = Cardinality(Wrote)
      /\ pc # "crashed"
      /\ (pc = "done" \/ fi > i) =>
            \A j \in 1..Len(MATERIALS[i].channels) :
              Printed([t |-> "noarray", suffix |-> MATERIALS[i].channels[j].suffix,
                       cpp_file |-> MATERIALS[i].cpp_file])
      /\ pc = "done" => /\ \A j \in (i + 1)..Len(MATERIALS) : Reported(j)
                        /\ Summarised

\* the process has ended, by return or by traceback
Ended == pc \in {"done", "crashed"}

\* C8: in a run that follows another run on the same input files, no step
\* changes the content of any output file, and once it has ended it has
\* printed what the run before it printed, the summary and its totals included.
C8_SecondRunChangesNothing ==
  /\ [][(Len(stdout) >= 2 /\ Len(stdout') = Len(stdout)) => out' = out]_vars
  /\ []((Len(stdout) >= 2 /\ Ended) => Cur = stdout[Len(stdout) - 1])

\* the second run over a four-channel document and a missing rest has ended
\* with the summary of the first, over output files that held earlier content
C8_Witness ==
  /\ Len(stdout) = 2
  /\ pc = "done"
  /\ files["bindata_clay.cpp"] = InputFile(DocBlend)
  /\ Printed([t |-> "done", total_files |-> 4, total_bytes |-> 5])
  /\ stdout[1] = stdout[2]
  /\ out["clay_g.hdr"] = [exists |-> TRUE, data |-> <<240, 0>>]
  /\ out["mud.hdr"] = OldFile

\* the buffer a "wrote" line of the current run reports
BufferOf(msg) ==
  getitem(extract_arrays(files[MATERIALS[FileOf(msg.out_name)].cpp_file].content),
          msg.array_name)

\* every file written in the current run holds exactly the buffer selected
\* for it, and no output name was written twice
WrittenFilesKeepBuffer ==
  Started =>
    /\ \A k \in Wrote : out[Cur[k].out_name] = [exists |-> TRUE, data |-> BufferOf(Cur[k])]
    /\ \A j \in Wrote, k \in Wrote : Cur[j].out_name = Cur[k].out_name => j = k

\* C9: a write makes the destination equal to the selected buffer whatever it
\* held, no step changes any other output file, a file written in a run keeps
\* that content through every later step of the run (skips and the abnormal
\* end included), and no output name is written twice in a run.
C9_WriteReplacesOnlyDestination ==
  /\ []WrittenFilesKeepBuffer
  /\ [][\A o \in OutNames :
          out'[o] # out[o] =>
            /\ pc = "channel"
            /\ o = Channel.out_name
            /\ total_files' = total_files + 1
            /\ out'[o] = [exists |-> TRUE,
                          data |-> arrays[FirstEndingWith(arrays, Channel.suffix)].data]]_vars

\* the run ended abnormally at clay_b.hdr after replacing the longer earlier
\* content of clay_r.hdr and clay_g.hdr; clay_b.hdr keeps the earlier content
C9_Witness ==
  /\ pc = "crashed"
  /\ files["bindata_clay.cpp"] = InputFile(DocRG)
  /\ out["clay_r.hdr"] = [exists |-> TRUE, data |-> <<240>>]
  /\ out["clay_g.hdr"] = [exists |-> TRUE, data |-> <<255>>]
  /\ out["clay_b.hdr"] = OldFile
  /\ Cardinality(Wrote) = 2

RECURSIVE SumOfWritten(_)
\* total length of the files the first n lines of the current run report written
SumOfWritten(n) ==
  IF n = 0 THEN 0
  ELSE SumOfWritten(n - 1)
         + (IF Cur[n].t = "wrote" THEN Len(out[Cur[n].out_name].data) ELSE 0)

\* both totals match the files written so far in the current run
TotalsMatchWritten ==
  /\ ~Started => total_files = 0 /\ total_bytes = 0
  /\ Started =>
       /\ total_files = Cardinality(Wrote)
       /\ total_bytes = SumOfWritten(Len(Cur))
       /\ \A k \in 1..Len(Cur) :
            Cur[k].t = "done" =>
              /\ Cur[k].total_files = Cardinality(Wrote)
              /\ Cur[k].total_bytes = SumOfWritten(Len(Cur))

\* C10: at every point of a run total_files is the number of assets written
\* so far and total_bytes the sum of the lengths written; both start at 0,
\* never decrease within a run, change only with a write, and are what the
\* summary reports.
C10_TotalsCountWrites ==
  /\ []TotalsMatchWritten
  /\ [][Len(stdout') = Len(stdout) =>
          /\ total_files' >= total_files
          /\ total_bytes' >= total_bytes
          /\ Wrote' = Wrote => (total_files' = total_files /\ total_bytes' = total_bytes)]_vars

\* the summary after a document skipped asset by asset, missing files and
\* one write of three bytes
C10_Witness ==
  /\ pc = "done"
  /\ files["bindata_clay.cpp"] = InputFile(DocNone)
  /\ files["bindata_mud.cpp"] = InputFile(DocPlain)
  /\ Printed([t |-> "done", total_files |-> 1, total_bytes |-> 3])
  /\ total_files = 1
  /\ total_bytes = 3

====
